---- MODULE Spec2Model ----
(***************************************************************************)
(* Model of crates/ra_ide/src/link_rewrite.rs: the markdown link rewriter  *)
(* (map_links), the dispatcher callback built in rewrite_links, the        *)
(* namespace disambiguator, the intra-doc and path-based resolvers and the *)
(* doc-root resolver.                                                      *)
(*                                                                         *)
(* A Rust string is a sequence of one-character strings, so that           *)
(* starts_with, chars().nth(), trim_start_matches and Url::join are        *)
(* computed character by character as the code computes them.              *)
(* An Option is a sequence of length at most one: None is << >> and        *)
(* Some(x) is << x >>.                                                     *)
(***************************************************************************)
EXTENDS Integers, Sequences, FiniteSets, TLC

VARIABLES
    \* ---- map_links (the stream rewriter) ----
    in_link,        \* let mut in_link, of map_links
    link_target,    \* let mut link_target: Option<CowStr>, of map_links
    open,           \* the parser's side: the link it has started and not yet ended
    inp,            \* the events pulled from the parser so far
    out,            \* the events map_links has emitted so far
    calls,          \* log of the callback invocations that returned
    panicked,       \* "none", or the place that panicked
    \* ---- the immutable snapshot the resolvers query ----
    db,
    \* ---- single calls of the pure functions ----
    op,             \* the function that was applied ("none" before the call)
    arg_target,     \* its target / string argument
    arg_text,       \* its text argument
    ret             \* what it returned

vars == << in_link, link_target, open, inp, out, calls, panicked,
           db, op, arg_target, arg_text, ret >>

streamVars == << in_link, link_target, open, inp, out, calls, panicked >>
callVars == << op, arg_target, arg_text, ret >>

----------------------------------------------------------------------------
(* Options *)

None == << >>
Some(x) == << x >>
IsSome(o) == Len(o) = 1
Unwrap(o) == o[1]

----------------------------------------------------------------------------
(* Rust &str operations, on sequences of characters *)

StartsWith(s, p) == Len(s) >= Len(p) /\ SubSeq(s, 1, Len(p)) = p

EndsWith(s, p) == Len(s) >= Len(p) /\ SubSeq(s, Len(s) - Len(p) + 1, Len(s)) = p

\* s.chars().nth(n): the character at 0-based index n, if any
CharsNth(s, n) == IF n < Len(s) THEN Some(s[n + 1]) ELSE None

Contains(s, p) == \E i \in 0..(Len(s) - Len(p)) : SubSeq(s, i + 1, i + Len(p)) = p

DropFirst(s, n) == SubSeq(s, n + 1, Len(s))

DropLast(s, n) == SubSeq(s, 1, Len(s) - n)

\* str::trim_start_matches(pattern): strips the pattern as often as it is a prefix
RECURSIVE TrimStartMatches(_, _)
TrimStartMatches(s, p) ==
    IF Len(p) > 0 /\ StartsWith(s, p) THEN TrimStartMatches(DropFirst(s, Len(p)), p) ELSE s

\* str::trim_end_matches(pattern): strips the pattern as often as it is a suffix
RECURSIVE TrimEndMatches(_, _)
TrimEndMatches(s, p) ==
    IF Len(p) > 0 /\ EndsWith(s, p) THEN TrimEndMatches(DropLast(s, Len(p)), p) ELSE s

\* str::trim_matches(char): strips the character from both ends
TrimMatches(s, c) == TrimEndMatches(TrimStartMatches(s, << c >>), << c >>)

\* str::trim(): strips white space from both ends
Trim(s) == TrimMatches(s, " ")

\* Itertools::join / concatenation of a list of strings with a separator
RECURSIVE Join(_, _)
Join(parts, sep) ==
    IF Len(parts) = 0 THEN << >>
    ELSE IF Len(parts) = 1 THEN parts[1]
    ELSE parts[1] \o sep \o Join(Tail(parts), sep)

----------------------------------------------------------------------------
(* String literals of the source *)

\* the character U+0060 (grave accent), which the TLA+ lexer does not accept in a string
backtick == "BACKTICK"

s_type == << "t", "y", "p", "e" >>
s_struct == << "s", "t", "r", "u", "c", "t" >>
s_enum == << "e", "n", "u", "m" >>
s_mod == << "m", "o", "d" >>
s_trait == << "t", "r", "a", "i", "t" >>
s_union == << "u", "n", "i", "o", "n" >>
s_module == << "m", "o", "d", "u", "l", "e" >>
s_value == << "v", "a", "l", "u", "e" >>
s_function == << "f", "u", "n", "c", "t", "i", "o", "n" >>
s_fn == << "f", "n" >>
s_method == << "m", "e", "t", "h", "o", "d" >>
s_const == << "c", "o", "n", "s", "t" >>
s_static == << "s", "t", "a", "t", "i", "c" >>
s_macro == << "m", "a", "c", "r", "o" >>
s_parens == << "(", ")" >>
s_bang == << "!" >>
s_at == << "@" >>
s_scheme_mark == << ":", "/", "/" >>
s_hash == << "#" >>
s_slash == << "/" >>
s_dot_html == << ".", "h", "t", "m", "l" >>

----------------------------------------------------------------------------
(* Namespace tables and the namespace disambiguator *)

\* static TYPES: (prefixes, suffixes)
TYPES ==
    [ prefixes |-> << s_type, s_struct, s_enum, s_mod, s_trait, s_union, s_module >>,
      suffixes |-> << >> ]

\* static VALUES: (prefixes, suffixes)
VALUES ==
    [ prefixes |-> << s_value, s_function, s_fn, s_method, s_const, s_static, s_mod, s_module >>,
      suffixes |-> << s_parens >> ]

\* static MACROS: (prefixes, suffixes)
MACROS ==
    [ prefixes |-> << s_macro >>, suffixes |-> << s_bang >> ]

\* .map(|c| c == '@' || c == ' ').unwrap_or(false)
IsSeparator(c) == IsSome(c) /\ Unwrap(c) \in { "@", " " }

\* s.chars().nth(n).map(|c| c == '@' || c == ' ').unwrap_or(false)
SeparatorAt(s, n) == IsSeparator(CharsNth(s, n))

\* one prefix of the filter closure: the separator is looked for at prefix.len() + 1
PrefixCond(s, prefix) == StartsWith(s, prefix) /\ SeparatorAt(s, Len(prefix) + 1)

\* one suffix of the filter closure: tested with starts_with, at suffix.len() + 1
SuffixCond(s, suffix) == StartsWith(s, suffix) /\ SeparatorAt(s, Len(suffix) + 1)

\* the filter closure of from_intra_spec for one table
NamespaceMatches(tbl, s) ==
    \/ \E i \in 1..Len(tbl.prefixes) : PrefixCond(s, tbl.prefixes[i])
    \/ \E i \in 1..Len(tbl.suffixes) : SuffixCond(s, tbl.suffixes[i])

\* Namespace::from_intra_spec: the first table, in the order Types, Values, Macros, that matches
from_intra_spec(s) ==
    IF NamespaceMatches(TYPES, s) THEN Some("Types")
    ELSE IF NamespaceMatches(VALUES, s) THEN Some("Values")
    ELSE IF NamespaceMatches(MACROS, s) THEN Some("Macros")
    ELSE None

\* prefixes.for_each(|prefix| s = s.trim_start_matches(prefix)), from the i-th prefix on
RECURSIVE StripPrefixes(_, _, _)
StripPrefixes(s, prefixes, i) ==
    IF i > Len(prefixes) THEN s
    ELSE StripPrefixes(TrimStartMatches(s, prefixes[i]), prefixes, i + 1)

\* suffixes.for_each(|suffix| s = s.trim_end_matches(suffix)), from the i-th suffix on
RECURSIVE StripSuffixes(_, _, _)
StripSuffixes(s, suffixes, i) ==
    IF i > Len(suffixes) THEN s
    ELSE StripSuffixes(TrimEndMatches(s, suffixes[i]), suffixes, i + 1)

\* one iteration of the for_each over the three tables
StripTable(s, tbl) == StripSuffixes(StripPrefixes(s, tbl.prefixes, 1), tbl.suffixes, 1)

\* strip_prefixes_suffixes
strip_prefixes_suffixes(s) ==
    LET s0 == TrimMatches(s, backtick)
        s1 == StripTable(s0, TYPES)
        s2 == StripTable(s1, VALUES)
        s3 == StripTable(s2, MACROS)
    IN  Trim(TrimStartMatches(s3, s_at))

----------------------------------------------------------------------------
(* url::Url: parse, join and into_string, for hierarchical URLs.           *)
(* A value that is used more than once is handed on as an argument.        *)

s_dot == << "." >>
s_dotdot == << ".", "." >>
s_colon == << ":" >>

\* 1-based index of the first occurrence of the pattern p in s at or after position i, or 0
RECURSIVE IndexFrom(_, _, _)
IndexFrom(s, p, i) ==
    IF i + Len(p) - 1 > Len(s) THEN 0
    ELSE IF SubSeq(s, i, i + Len(p) - 1) = p THEN i
    ELSE IndexFrom(s, p, i + 1)

\* 1-based index of the last occurrence of the character c in s at or before i, or 0
RECURSIVE LastIndexOf(_, _, _)
LastIndexOf(s, c, i) ==
    IF i = 0 THEN 0 ELSE IF s[i] = c THEN i ELSE LastIndexOf(s, c, i - 1)

\* s.split(c), the first separator being at index i (0: none)
RECURSIVE Split(_, _)
RECURSIVE SplitAt(_, _, _)
SplitAt(s, c, i) ==
    IF i = 0 THEN << s >> ELSE << SubSeq(s, 1, i - 1) >> \o Split(DropFirst(s, i), c)

Split(s, c) == SplitAt(s, c, IndexFrom(s, << c >>, 1))

\* the part of s before index i, all of s when i = 0
Before(s, i) == IF i = 0 THEN s ELSE SubSeq(s, 1, i - 1)

\* the part of s after index i, when there is an index
After(s, i) == IF i = 0 THEN None ELSE Some(DropFirst(s, i))

\* the part of a reference before its '#', and the fragment after it, if any
BeforeFragment(s) == Before(s, IndexFrom(s, s_hash, 1))

FragmentOf(s) == After(s, IndexFrom(s, s_hash, 1))

\* a directory path keeps its trailing slash: an empty last segment
AsDirectory(stack, last) == IF last THEN Append(stack, << >>) ELSE stack

Pop(stack) == IF Len(stack) > 0 THEN DropLast(stack, 1) ELSE stack

\* remove_dot_segments of RFC 3986, over the segments of a path that starts with '/'
RECURSIVE RemoveDotSegments(_, _, _)
RemoveDotSegments(segs, i, stack) ==
    IF i > Len(segs) THEN stack
    ELSE IF segs[i] = s_dot
    THEN RemoveDotSegments(segs, i + 1, AsDirectory(stack, i = Len(segs)))
    ELSE IF segs[i] = s_dotdot
    THEN RemoveDotSegments(segs, i + 1, AsDirectory(Pop(stack), i = Len(segs)))
    ELSE RemoveDotSegments(segs, i + 1, Append(stack, segs[i]))

\* a path that starts with '/', with its dot segments removed
NormalizePath(path) ==
    s_slash \o Join(RemoveDotSegments(Split(DropFirst(path, 1), "/"), 1, << >>), s_slash)

SchemeChars ==
    { "a", "b", "c", "d", "e", "f", "g", "h", "i", "j", "k", "l", "m", "n", "o", "p",
      "q", "r", "s", "t", "u", "v", "w", "x", "y", "z" }

\* the index i of the ':' that ends a scheme, when the characters before it are a
\* non-empty run of scheme characters; 0 otherwise
SchemeAt(s, i) ==
    IF i > 1 /\ \A j \in 1..(i - 1) : s[j] \in SchemeChars THEN i ELSE 0

SchemeEnd(s) == SchemeAt(s, IndexFrom(s, s_colon, 1))

\* the URL scheme://host/path#fragment, the first '/' after the host being at index p of
\* hostPath (0: no path)
UrlOf(scheme, hostPath, fragment, p) ==
    IF p = 1 \/ Len(hostPath) = 0 THEN None
    ELSE Some([ base_ok |-> TRUE,
                origin |-> scheme \o Before(hostPath, p),
                path |-> IF p = 0 THEN s_slash ELSE NormalizePath(DropFirst(hostPath, p - 1)),
                fragment |-> fragment ])

UrlAuthority(scheme, hostPath, fragment) ==
    UrlOf(scheme, hostPath, fragment, IndexFrom(hostPath, s_slash, 1))

\* Url::parse of a text whose scheme ends at index c
UrlParseScheme(s, c) ==
    IF c = 0 THEN None
    ELSE IF SubSeq(s, c, c + 2) # s_scheme_mark
    THEN Some([ base_ok |-> FALSE, origin |-> SubSeq(s, 1, c),
                path |-> BeforeFragment(DropFirst(s, c)),
                fragment |-> FragmentOf(DropFirst(s, c)) ])
    ELSE UrlAuthority(SubSeq(s, 1, c + 2), BeforeFragment(DropFirst(s, c + 2)),
                      FragmentOf(DropFirst(s, c + 2)))

\* Url::parse(s).ok(): a reference without a scheme has no base and does not parse; a
\* scheme not followed by "//" gives a URL that cannot be a base
UrlParse(s) == UrlParseScheme(s, SchemeEnd(s))

\* the path of base.join(rel) for a relative reference with path relPath
JoinPath(basePath, relPath) ==
    IF Len(relPath) = 0 THEN basePath
    ELSE IF StartsWith(relPath, s_slash) THEN NormalizePath(relPath)
    ELSE NormalizePath(SubSeq(basePath, 1, LastIndexOf(basePath, "/", Len(basePath)))
                           \o relPath)

\* base.join(rel), absolute being Url::parse(rel)
UrlJoinParsed(base, rel, absolute) ==
    IF IsSome(absolute) THEN absolute
    ELSE IF ~base.base_ok THEN None
    ELSE Some([ base_ok |-> TRUE, origin |-> base.origin,
                path |-> JoinPath(base.path, BeforeFragment(rel)),
                fragment |-> FragmentOf(rel) ])

\* Url::join(rel).ok(): relative-reference resolution of RFC 3986 against the base
UrlJoin(base, rel) == UrlJoinParsed(base, rel, UrlParse(rel))

\* url?.join(rel).ok() and .and_then(|url| url.join(rel).ok())
JoinOpt(url, rel) == IF IsSome(url) THEN UrlJoin(Unwrap(url), rel) ELSE None

\* url?.join(&rel?).ok()
JoinOptOpt(url, rel) ==
    IF IsSome(url) /\ IsSome(rel) THEN UrlJoin(Unwrap(url), Unwrap(rel)) ELSE None

\* Url::into_string
IntoString(url) ==
    url.origin \o url.path
        \o (IF IsSome(url.fragment) THEN s_hash \o Unwrap(url.fragment) ELSE << >>)

\* .map(|url| url.into_string())
IntoStringOpt(url) == IF IsSome(url) THEN Some(IntoString(Unwrap(url))) ELSE None

----------------------------------------------------------------------------
(* Results of a call that may panic *)

Panic == [ panic |-> TRUE, val |-> None ]
Return(v) == [ panic |-> FALSE, val |-> v ]

----------------------------------------------------------------------------
(* get_symbol_filename *)

s_html_root_url == << "h", "t", "m", "l", "_", "r", "o", "o", "t", "_", "u", "r", "l" >>
s_docs_rs == << "h", "t", "t", "p", "s", ":", "/", "/", "d", "o", "c", "s", ".", "r", "s", "/" >>
s_slash_star == << "/", "*" >>
s_index_html == << "i", "n", "d", "e", "x", ".", "h", "t", "m", "l" >>
s_primitive == << "p", "r", "i", "m", "i", "t", "i", "v", "e" >>
s_variant_mark == << "#", "v", "a", "r", "i", "a", "n", "t", "." >>

\* format!("<kind>.{}.html", name)
KindFile(kind, name) == kind \o s_dot \o name \o s_dot_html

\* format!("<kind>.{}.html", name?)
KindFileOpt(kind, name) == IF IsSome(name) THEN Some(KindFile(kind, Unwrap(name))) ELSE None

\* get_symbol_filename: a definition is [variant, kind, name, parent], name an Option
get_symbol_filename(definition) ==
    IF definition.variant = "ModuleDef" THEN
        CASE definition.kind = "Struct" -> Some(KindFile(s_struct, Unwrap(definition.name)))
          [] definition.kind = "Enum" -> Some(KindFile(s_enum, Unwrap(definition.name)))
          [] definition.kind = "Union" -> Some(KindFile(s_union, Unwrap(definition.name)))
          [] definition.kind = "Module" -> Some(s_index_html)
          [] definition.kind = "Trait" -> Some(KindFile(s_trait, Unwrap(definition.name)))
          [] definition.kind = "TypeAlias" -> Some(KindFile(s_type, Unwrap(definition.name)))
          [] definition.kind = "BuiltinType" ->
                Some(KindFile(s_primitive, Unwrap(definition.name)))
          [] definition.kind = "Function" -> Some(KindFile(s_fn, Unwrap(definition.name)))
          [] definition.kind = "EnumVariant" ->
                Some(KindFile(s_enum, definition.parent) \o s_variant_mark
                        \o Unwrap(definition.name))
          [] definition.kind = "Const" -> KindFileOpt(s_const, definition.name)
          [] definition.kind = "Static" -> KindFileOpt(s_static, definition.name)
    ELSE IF definition.variant = "Macro" THEN KindFileOpt(s_macro, definition.name)
    ELSE None

----------------------------------------------------------------------------
(* get_doc_url *)

\* skip_while(|tt| !matches!(tt, Ident html_root_url)): the index of the first
\* html_root_url identifier at or after i, or 0
RECURSIVE SkipWhile(_, _)
SkipWhile(tt, i) ==
    IF i > Len(tt) THEN 0
    ELSE IF tt[i].kind = "ident" /\ tt[i].text = s_html_root_url THEN i
    ELSE SkipWhile(tt, i + 1)

\* .skip(2).next(), matched against a literal: i is the index SkipWhile stopped at
LiteralAfter(tt, i) ==
    IF i # 0 /\ i + 2 <= Len(tt) /\ tt[i + 2].kind = "literal"
    THEN Some(tt[i + 2].text) ELSE None

\* the closure of tt_values().map(..)
RootUrlLiteral(tt) == LiteralAfter(tt, SkipWhile(tt, 1))

\* doc_attr_q.tt_values().map(..).flat_map(|t| t).next(): the first literal found, over
\* the doc attributes that carry a token tree, from the i-th attribute on
RECURSIVE FirstRootUrl(_, _)
RECURSIVE FoundOrNext(_, _, _)
FoundOrNext(found, attrs, i) == IF IsSome(found) THEN found ELSE FirstRootUrl(attrs, i + 1)

FirstRootUrl(attrs, i) ==
    IF i > Len(attrs) THEN None
    ELSE IF IsSome(attrs[i].tt) THEN FoundOrNext(RootUrlLiteral(Unwrap(attrs[i].tt)), attrs, i)
    ELSE FirstRootUrl(attrs, i + 1)

\* let doc_url = if doc_attr_q.exists() { .. } else { Some(format!(..)) }
DocUrl(d) ==
    IF Len(d.doc_attrs) > 0 THEN FirstRootUrl(d.doc_attrs, 1)
    ELSE IF IsSome(d.krate_name)
    THEN Some(s_docs_rs \o Unwrap(d.krate_name) \o s_slash_star)
    ELSE None

\* s.trim_matches('"').trim_end_matches("/").to_owned() + "/"
NormalizeRoot(s) == TrimEndMatches(TrimMatches(s, "\""), s_slash) \o s_slash

\* doc_url.map(normalise).and_then(|s| Url::parse(&s).ok())
ParseRoot(doc_url) ==
    IF IsSome(doc_url) THEN UrlParse(NormalizeRoot(Unwrap(doc_url))) ELSE None

\* get_doc_url(db, krate): Option<Url>
get_doc_url(d) == IF ~d.root_module THEN None ELSE ParseRoot(DocUrl(d))

----------------------------------------------------------------------------
(* try_resolve_intra *)

\* characters the lexer and the path grammar never accept inside a path
NonPathChars == { " ", "@", "!", "(", ")", "/", "#", ".", "*", "\"", backtick }

\* Path::parse(link_target).ok(): an empty text and a text with a character outside
\* the path grammar never parse; for the rest the syntax tree decides
PathParse(d, s) ==
    IF Len(s) = 0 \/ \E i \in 1..Len(s) : s[i] \in NonPathChars THEN FALSE ELSE d.parse_ok

\* the match on namespace: (defid, namespace) of the selected candidate, or None
SelectCandidate(namespace, resolved) ==
    IF namespace = None THEN
        IF IsSome(resolved.types) THEN Some(<< Unwrap(resolved.types), "Types" >>)
        ELSE IF IsSome(resolved.values) THEN Some(<< Unwrap(resolved.values), "Values" >>)
        ELSE None
    ELSE IF Unwrap(namespace) = "Types" THEN
        IF IsSome(resolved.types) THEN Some(<< Unwrap(resolved.types), "Types" >>) ELSE None
    ELSE IF Unwrap(namespace) = "Values" THEN
        IF IsSome(resolved.values) THEN Some(<< Unwrap(resolved.values), "Values" >>) ELSE None
    ELSE None

\* IntraUrl without the join with "<krate>/"
IntraUrlWithoutKrate(d, def) ==
    IntoStringOpt(
        JoinOptOpt(JoinOpt(get_doc_url(d), Join(Unwrap(d.import_path), s_slash)),
                   get_symbol_filename(def)))

\* the URL of the selected symbol: the doc root, joined with "<krate>/", with the import
\* path segments joined by "/", and with the symbol filename
IntraUrl(d, def) ==
    IF ~IsSome(d.krate_name) THEN None
    ELSE IntoStringOpt(
            JoinOptOpt(
                JoinOpt(JoinOpt(get_doc_url(d), Unwrap(d.krate_name) \o s_slash),
                        Join(Unwrap(d.import_path), s_slash)),
                get_symbol_filename(def)))

\* Some((url, strip_prefixes_suffixes(link_text).to_string()))
ResolvedLink(url, text) ==
    IF IsSome(url) THEN Return(Some(<< Unwrap(url), strip_prefixes_suffixes(text) >>))
    ELSE Return(None)

\* from the match on namespace to the end of try_resolve_intra
ResolveSelected(d, text, sel) ==
    IF ~IsSome(sel) THEN Return(None)
    ELSE IF ~d.has_module THEN Return(None)
    ELSE IF Unwrap(sel)[2] \notin { "Types", "Values" } THEN Return(None)
    ELSE IF ~IsSome(d.import_path) THEN Return(None)
    ELSE ResolvedLink(IntraUrl(d, Unwrap(sel)[1]), text)

\* try_resolve_intra once link_target is set for implied shortlinks
ResolveTarget(d, text, target) ==
    IF ~PathParse(d, strip_prefixes_suffixes(target)) THEN Return(None)
    ELSE IF ~d.lower_ok THEN Panic
    ELSE IF ~d.has_resolver THEN Return(None)
    ELSE ResolveSelected(d, text,
            SelectCandidate(from_intra_spec(target),
                            [ types |-> d.types, values |-> d.values ]))

\* try_resolve_intra(db, definition, text, tgt): panics, or returns
\* Option<(String, String)>
try_resolve_intra(d, text, tgt) ==
    ResolveTarget(d, text, IF Len(tgt) = 0 THEN TrimMatches(text, backtick) ELSE tgt)

----------------------------------------------------------------------------
(* try_resolve_path *)

\* try_resolve_path(db, definition, link): Option<String>
try_resolve_path(d, link) ==
    IF ~Contains(link, s_hash) /\ ~Contains(link, s_dot_html) THEN None
    ELSE IF d.definition.variant # "ModuleDef" THEN None
    ELSE IF ~d.has_module THEN None
    ELSE IF ~IsSome(d.krate_name) \/ ~IsSome(d.import_path) THEN None
    ELSE IntoStringOpt(
            JoinOpt(
                JoinOptOpt(
                    JoinOpt(get_doc_url(d),
                            Join(<< Unwrap(d.krate_name) >> \o Unwrap(d.import_path), s_slash)),
                    get_symbol_filename(d.definition)),
                link))

----------------------------------------------------------------------------
(* The dispatcher: the callback rewrite_links hands to map_links *)

\* PathOrUnchanged that cleans the text of a link it could not resolve
PathOrUnchangedStripped(target, title, byPath) ==
    IF IsSome(byPath) THEN Return(<< Unwrap(byPath), title >>)
    ELSE Return(<< target, strip_prefixes_suffixes(title) >>)

\* match resolved { Some((target, title)) => .., None => (target, title) }, for the
\* path-based result
PathOrUnchanged(target, title, byPath) ==
    IF IsSome(byPath) THEN Return(<< Unwrap(byPath), title >>)
    ELSE Return(<< target, title >>)

\* try_resolve_intra(..).or_else(|| try_resolve_path(..).map(..)) and the match on it
IntraOrElse(d, target, title, intra) ==
    IF intra.panic THEN Panic
    ELSE IF IsSome(intra.val) THEN Return(Unwrap(intra.val))
    ELSE PathOrUnchanged(target, title, try_resolve_path(d, target))

\* |target, title| { .. }: panics, or returns the pair << target, title >>
callback(d, target, title) ==
    IF Contains(target, s_scheme_mark) THEN Return(<< target, title >>)
    ELSE IntraOrElse(d, target, title, try_resolve_intra(d, title, target))

----------------------------------------------------------------------------
(* The snapshots and inputs the checks draw from *)

n_k == << "k" >>
n_a == << "a" >>
n_b == << "b" >>
n_S == << "S" >>
n_foo == << "f", "o", "o" >>
s_https_x == << "h", "t", "t", "p", "s", ":", "/", "/", "x" >>

DefStructS == [ variant |-> "ModuleDef", kind |-> "Struct", name |-> Some(n_S), parent |-> << >> ]
DefFnFoo == [ variant |-> "ModuleDef", kind |-> "Function", name |-> Some(n_foo), parent |-> << >> ]
DefConstAnon == [ variant |-> "ModuleDef", kind |-> "Const", name |-> None, parent |-> << >> ]
DefLocal == [ variant |-> "Local", kind |-> "Local", name |-> None, parent |-> << >> ]

Ident(text) == [ kind |-> "ident", text |-> text ]
Punct(text) == [ kind |-> "punct", text |-> text ]
Literal(text) == [ kind |-> "literal", text |-> text ]

\* #![doc(hidden)]
AttrHidden == [ tt |-> Some(<< Ident(<< "h", "i", "d", "d", "e", "n" >>) >>) ]
\* #![doc(html_root_url = "https://x/")]
AttrRoot ==
    [ tt |-> Some(<< Ident(s_html_root_url), Punct(<< "=" >>),
                     Literal(<< "\"" >> \o s_https_x \o << "/", "\"" >>) >>) ]
\* #![doc(html_root_url = "https://x")], after another doc attribute
AttrRootNoSlash ==
    [ tt |-> Some(<< Ident(s_html_root_url), Punct(<< "=" >>),
                     Literal(<< "\"" >> \o s_https_x \o << "\"" >>) >>) ]
\* #![doc(html_root_url = "a:b")]: parses as a URL that cannot be a base
AttrRootOpaque ==
    [ tt |-> Some(<< Ident(s_html_root_url), Punct(<< "=" >>),
                     Literal(<< "\"", "a", ":", "b", "\"" >>) >>) ]

\* the doc attributes of the root module: none, or the ones above
DocAttrs ==
    { << >>, << AttrHidden >>, << AttrRoot >>, << AttrHidden, AttrRootNoSlash >>,
      << AttrRootOpaque >> }

\* every snapshot: one answer of each collaborator the resolvers query
Dbs ==
    [ parse_ok : BOOLEAN, lower_ok : BOOLEAN, has_resolver : BOOLEAN,
      types : { None, Some(DefStructS) },
      values : { None, Some(DefFnFoo), Some(DefConstAnon) },
      has_module : BOOLEAN,
      import_path : { None, Some(<< n_a, n_b >>), Some(<< n_a, n_b, n_S >>) },
      krate_name : { None, Some(n_k) },
      root_module : BOOLEAN,
      doc_attrs : DocAttrs,
      definition : { DefStructS, DefLocal } ]

t_struct_S == s_struct \o << " ", "S" >>
t_fn_at_foo == s_fn \o s_at \o n_foo
t_macro_at_foo == s_macro \o s_at \o n_foo
t_macro_sp_foo == s_macro \o << " " >> \o n_foo
t_foo_bang == n_foo \o s_bang
t_macro_bang == s_macro \o s_bang
t_fn_2sp_foo == s_fn \o << " ", " " >> \o n_foo
t_type_2sp_S == s_type \o << " ", " ", "S" >>
t_macro_bang_at_foo == s_macro \o s_bang \o s_at \o n_foo
t_absolute == s_https_x \o << "/", "y" >>
t_up_c_html == << ".", ".", "/", "c" >> \o s_dot_html
t_frag_m == << "#", "m" >>
t_quoted_S == << backtick, "S", backtick >>

\* (target, text) of the links the resolvers are applied to
Links ==
    { << t_struct_S, n_S >>, << t_fn_at_foo, n_foo >>, << t_macro_at_foo, n_foo >>,
      << t_macro_sp_foo, n_foo >>, << t_foo_bang, t_foo_bang >>, << t_macro_bang, n_foo >>,
      << t_fn_2sp_foo, n_foo >>, << t_type_2sp_S, t_struct_S >>,
      << t_macro_bang_at_foo, n_foo >>, << t_absolute, t_struct_S >>,
      << t_up_c_html, n_S >>, << t_frag_m, t_struct_S >>,
      << << >>, t_quoted_S >>, << n_S, t_struct_S >> }

\* the snapshot in which every query succeeds
HealthyDb ==
    [ parse_ok |-> TRUE, lower_ok |-> TRUE, has_resolver |-> TRUE,
      types |-> Some(DefStructS), values |-> Some(DefFnFoo), has_module |-> TRUE,
      import_path |-> Some(<< n_a, n_b >>), krate_name |-> Some(n_k),
      root_module |-> TRUE, doc_attrs |-> << AttrRoot >>, definition |-> DefStructS ]

----------------------------------------------------------------------------
(* Single calls of the resolvers, on a drawn snapshot *)

StreamIdle ==
    /\ in_link = FALSE /\ link_target = None /\ open = None
    /\ inp = << >> /\ out = << >> /\ calls = << >> /\ panicked = "none"

InitResolve ==
    /\ StreamIdle
    /\ db \in Dbs
    /\ op = "none" /\ arg_target = << >> /\ arg_text = << >> /\ ret = None

CallTryResolveIntra ==
    /\ op = "none"
    /\ \E l \in Links :
        /\ arg_target' = l[1]
        /\ arg_text' = l[2]
        /\ ret' = try_resolve_intra(db, l[2], l[1])
    /\ op' = "try_resolve_intra"
    /\ UNCHANGED << streamVars, db >>

CallTryResolvePath ==
    /\ op = "none"
    /\ \E l \in Links :
        /\ arg_target' = l[1]
        /\ arg_text' = << >>
        /\ ret' = try_resolve_path(db, l[1])
    /\ op' = "try_resolve_path"
    /\ UNCHANGED << streamVars, db >>

CallGetDocUrl ==
    /\ op = "none"
    /\ ret' = get_doc_url(db)
    /\ op' = "get_doc_url"
    /\ UNCHANGED << streamVars, db, arg_target, arg_text >>

CallCallback ==
    /\ op = "none"
    /\ \E l \in Links :
        /\ arg_target' = l[1]
        /\ arg_text' = l[2]
        /\ ret' = callback(db, l[1], l[2])
    /\ op' = "callback"
    /\ UNCHANGED << streamVars, db >>

NextResolve ==
    \/ CallTryResolveIntra
    \/ CallTryResolvePath
    \/ CallGetDocUrl
    \/ CallCallback

SpecResolve == InitResolve /\ [][NextResolve]_vars

----------------------------------------------------------------------------
(* map_links: the stream rewriter, driven by the events of the parser *)

MaxEvents == 5

n_T == << "T" >>

StartLink(link_type, target, title) ==
    [ kind |-> "StartLink", link_type |-> link_type, target |-> target, title |-> title,
      text |-> << >> ]
EndLink(link_type, target, title) ==
    [ kind |-> "EndLink", link_type |-> link_type, target |-> target, title |-> title,
      text |-> << >> ]
Text(s) ==
    [ kind |-> "Text", link_type |-> "", target |-> << >>, title |-> << >>, text |-> s ]
Code(s) ==
    [ kind |-> "Code", link_type |-> "", target |-> << >>, title |-> << >>, text |-> s ]
Other(kind) ==
    [ kind |-> kind, link_type |-> "", target |-> << >>, title |-> << >>, text |-> << >> ]

\* (link type, target, title) of the links the parser starts
StreamLinks ==
    { << "Inline", n_S, n_T >>, << "Inline", t_absolute, << >> >>,
      << "Inline", << >>, n_T >>, << "ShortcutUnknown", t_quoted_S, t_quoted_S >> }

StreamTexts == { n_S, t_type_2sp_S }
StreamCodes == { n_foo }
OtherKinds == { "SoftBreak", "StartEmphasis" }

\* the snapshots the documents are rewritten against
StreamDbs ==
    { HealthyDb,
      [ HealthyDb EXCEPT !.types = None, !.doc_attrs = << >>,
                         !.import_path = Some(<< n_foo >>) ],
      [ HealthyDb EXCEPT !.lower_ok = FALSE ] }

\* the events the parser can produce next: links are paired and never nested
ParserEvents ==
    (IF open = None
     THEN { StartLink(l[1], l[2], l[3]) : l \in StreamLinks }
     ELSE { EndLink(Unwrap(open)[1], Unwrap(open)[2], Unwrap(open)[3]) })
    \cup { Text(s) : s \in StreamTexts }
    \cup { Code(s) : s \in StreamCodes }
    \cup { Other(k) : k \in OtherKinds }

\* the parser's own record of the link it is in
ParserAfter(evt) ==
    IF evt.kind = "StartLink" THEN Some(<< evt.link_type, evt.target, evt.title >>)
    ELSE IF evt.kind = "EndLink" THEN None
    ELSE open

Init ==
    /\ in_link = FALSE
    /\ link_target = None
    /\ open = None
    /\ inp = << >>
    /\ out = << >>
    /\ calls = << >>
    /\ panicked = "none"
    /\ db \in StreamDbs
    /\ op = "none" /\ arg_target = << >> /\ arg_text = << >> /\ ret = None

Running == panicked = "none" /\ Len(inp) < MaxEvents

\* LinkEndEvent that keeps the title of the parsed event
LinkEndEventKeepsTitle(evt, target) == EndLink(evt.link_type, target, evt.title)

\* Event::End(Tag::Link(link_type, link_target.take().unwrap(), CowStr::Borrowed("")))
LinkEndEvent(evt, target) == EndLink(evt.link_type, target, << >>)

\* Event::Text / Event::Code(CowStr::Boxed(link_name.into()))
LinkNameEvent(evt, link_name) == [ evt EXCEPT !.text = link_name ]

\* LinkTargetAfter that does not put the taken target back
LinkTargetAfterTaken(evt, link_target_s) == None

\* the target recorded after a text or code span inside a link
LinkTargetAfter(evt, link_target_s) == Some(link_target_s)

\* PassEvent that cleans the text of every text and code event
PassEventStripped(evt) == [ evt EXCEPT !.text = strip_prefixes_suffixes(evt.text) ]

\* the arm  _ => evt
PassEvent(evt) == evt

\* Event::Start(Tag::Link(_link_type, ref target, _)) => { .. evt }
OnLinkStart ==
    /\ Running
    /\ \E evt \in ParserEvents :
        /\ evt.kind = "StartLink"
        /\ in_link' = TRUE
        /\ link_target' = Some(evt.target)
        /\ inp' = Append(inp, evt)
        /\ out' = Append(out, evt)
        /\ open' = ParserAfter(evt)
    /\ UNCHANGED << calls, panicked, db, callVars >>

\* Event::End(Tag::Link(link_type, _target, _)) => { .. }
OnLinkEnd ==
    /\ Running
    /\ \E evt \in ParserEvents :
        /\ evt.kind = "EndLink"
        /\ in_link' = FALSE
        /\ inp' = Append(inp, evt)
        /\ open' = ParserAfter(evt)
        /\ IF IsSome(link_target)
           THEN /\ link_target' = None
                /\ out' = Append(out, LinkEndEvent(evt, Unwrap(link_target)))
                /\ panicked' = panicked
           ELSE /\ panicked' = "unwrap"
                /\ UNCHANGED << link_target, out >>
    /\ UNCHANGED << calls, db, callVars >>

\* the body shared by the arms Event::Text(s) if in_link and Event::Code(s) if in_link,
\* r being what the callback did
LinkChildWith(evt, r) ==
    IF r.panic
    THEN /\ panicked' = "callback"
         /\ link_target' = None
         /\ UNCHANGED << out, calls >>
    ELSE /\ panicked' = panicked
         /\ link_target' = LinkTargetAfter(evt, r.val[1])
         /\ out' = Append(out, LinkNameEvent(evt, r.val[2]))
         /\ calls' = Append(calls,
                            [ at |-> Len(inp) + 1,
                              target |-> Unwrap(link_target), text |-> evt.text,
                              ret_target |-> r.val[1], ret_text |-> r.val[2] ])

LinkChild(evt) ==
    /\ inp' = Append(inp, evt)
    /\ open' = ParserAfter(evt)
    /\ in_link' = in_link
    /\ IF ~IsSome(link_target)
       THEN /\ panicked' = "unwrap"
            /\ UNCHANGED << link_target, out, calls >>
       ELSE LinkChildWith(evt, callback(db, Unwrap(link_target), evt.text))

\* Event::Text(s) if in_link => { .. }
OnLinkText ==
    /\ Running
    /\ in_link
    /\ \E evt \in ParserEvents : evt.kind = "Text" /\ LinkChild(evt)
    /\ UNCHANGED << db, callVars >>

\* Event::Code(s) if in_link => { .. }
OnLinkCode ==
    /\ Running
    /\ in_link
    /\ \E evt \in ParserEvents : evt.kind = "Code" /\ LinkChild(evt)
    /\ UNCHANGED << db, callVars >>

\* _ => evt
OnOther ==
    /\ Running
    /\ \E evt \in ParserEvents :
        /\ evt.kind \notin { "StartLink", "EndLink" }
        /\ evt.kind \in { "Text", "Code" } => ~in_link
        /\ inp' = Append(inp, evt)
        /\ out' = Append(out, PassEvent(evt))
        /\ open' = ParserAfter(evt)
    /\ UNCHANGED << in_link, link_target, calls, panicked, db, callVars >>

Next ==
    \/ OnLinkStart
    \/ OnLinkEnd
    \/ OnLinkText
    \/ OnLinkCode
    \/ OnOther

Spec == Init /\ [][Next]_vars

----------------------------------------------------------------------------
(* Single calls of the namespace disambiguator, on drawn strings *)

MaxPieces == 3

Pieces ==
    { s_fn, s_type, s_mod, s_macro, s_at, << " " >>, << backtick >>, n_foo, s_bang,
      s_parens, << "u", "l", "e" >>, << "s" >> }

\* the concatenations of at most n pieces
RECURSIVE Concats(_)
Concats(n) ==
    IF n = 0 THEN { << >> }
    ELSE Concats(n - 1) \cup { p \o q : p \in Pieces, q \in Concats(n - 1) }

InitStrip ==
    /\ StreamIdle
    /\ db = HealthyDb
    /\ op = "none"
    /\ arg_target \in Concats(MaxPieces)
    /\ arg_text = << >>
    /\ ret = None

CallFromIntraSpec ==
    /\ op = "none"
    /\ ret' = from_intra_spec(arg_target)
    /\ op' = "from_intra_spec"
    /\ UNCHANGED << streamVars, db, arg_target, arg_text >>

CallStripPrefixesSuffixes ==
    /\ op = "none"
    /\ ret' = strip_prefixes_suffixes(arg_target)
    /\ op' = "strip_prefixes_suffixes"
    /\ UNCHANGED << streamVars, db, arg_target, arg_text >>

NextStrip ==
    \/ CallFromIntraSpec
    \/ CallStripPrefixesSuffixes

SpecStrip == InitStrip /\ [][NextStrip]_vars

----------------------------------------------------------------------------
(* Properties of map_links *)

Max(S) == CHOOSE x \in S : \A y \in S : y <= x

\* the index of the link-start event that the i-th input event lies after without a
\* link-end in between, or 0 when the i-th event is outside every link
LinkStartOf(i) ==
    LET starts == { j \in 1..(i - 1) :
                        /\ inp[j].kind = "StartLink"
                        /\ \A k \in (j + 1)..(i - 1) : inp[k].kind # "EndLink" }
    IN  IF starts = { } THEN 0 ELSE Max(starts)

IsLinkChild(i) == inp[i].kind \in { "Text", "Code" } /\ LinkStartOf(i) # 0

\* the indexes of the log entries of the callback invocation made for the i-th event
CallsAt(i) == { c \in 1..Len(calls) : calls[c].at = i }

\* the target a link holds just before its i-th event: the target returned for the
\* latest earlier text or code-span child, the link-start target when there is none
TargetBefore(i) ==
    LET j == LinkStartOf(i)
        children == { k \in (j + 1)..(i - 1) : inp[k].kind \in { "Text", "Code" } }
    IN  IF children = { } THEN inp[j].target
        ELSE calls[CHOOSE c \in CallsAt(Max(children)) : TRUE].ret_target

\* C1: map_links emits one output event per input event, in order, and every event
\* other than a link-end and a text or code span inside a link is emitted identical to
\* the input event (the pass emits nothing more once the callback has panicked)
MapLinksPreservesOtherEvents ==
    /\ Len(out) <= Len(inp)
    /\ panicked = "none" => Len(out) = Len(inp)
    /\ \A i \in 1..Len(out) :
        /\ out[i].kind = inp[i].kind
        /\ (inp[i].kind # "EndLink" /\ ~IsLinkChild(i)) => out[i] = inp[i]

\* a text outside every link, an emphasis inside a link and a rewritten text inside a
\* link have all been emitted
MapLinksPreservesOtherEventsWitness ==
    /\ Len(out) = Len(inp)
    /\ \E i, j, k \in 1..Len(out) :
        /\ inp[i].kind = "Text" /\ LinkStartOf(i) = 0 /\ inp[i].text = t_type_2sp_S
        /\ inp[j].kind = "StartEmphasis" /\ LinkStartOf(j) # 0
        /\ inp[k].kind = "Text" /\ IsLinkChild(k) /\ out[k] # inp[k]

\* C3: inside a link every text or code-span child invokes the callback with the target
\* the link holds (the link-start target, then the target the previous invocation
\* returned) and is emitted with the returned text; the link-end carries the target
\* the link holds at its end and an empty title; no invocation is made outside a link
LinkTargetChainsWithinLink ==
    /\ \A c \in 1..Len(calls) : calls[c].at <= Len(out) /\ IsLinkChild(calls[c].at)
    /\ \A i \in 1..Len(out) :
        /\ IsLinkChild(i) =>
            /\ Cardinality(CallsAt(i)) = 1
            /\ \A c \in CallsAt(i) :
                /\ calls[c].target = TargetBefore(i)
                /\ calls[c].text = inp[i].text
                /\ out[i].text = calls[c].ret_text
        /\ inp[i].kind = "EndLink" =>
            out[i] = EndLink(inp[i].link_type, TargetBefore(i), << >>)

\* a link with a title and two children has ended: the second invocation was given the
\* target the first one returned, which is not the link's own, and the link-end carries it
LinkTargetChainsWithinLinkWitness ==
    \E i \in 1..Len(out) :
        /\ inp[i].kind = "EndLink" /\ inp[i].title # << >>
        /\ Cardinality({ k \in (LinkStartOf(i) + 1)..(i - 1) : IsLinkChild(k) }) = 2
        /\ out[i].target # inp[i].target
        /\ out[i].title = << >>
        /\ Len(calls) = 2
        /\ calls[2].target = calls[1].ret_target
        /\ calls[1].ret_target # calls[1].target

\* C10: between events, in_link is true exactly when link_target holds a value and
\* exactly when the parser is inside a link; no unwrap of link_target meets None
InLinkIffTargetRecorded ==
    /\ panicked # "unwrap"
    /\ panicked = "none" =>
        /\ in_link <=> IsSome(link_target)
        /\ in_link <=> IsSome(open)

\* a second link has started after a first link with a child has ended
InLinkIffTargetRecordedWitness ==
    /\ panicked = "none"
    /\ in_link /\ IsSome(link_target)
    /\ Len(calls) >= 1
    /\ \E i \in 1..Len(out) : out[i].kind = "EndLink"

----------------------------------------------------------------------------
(* Properties of the dispatcher and of the resolvers *)

\* C2: the callback returns a pair other than its input only when the target has no
\* "://" and one of the resolvers returned a result; a target with "://", and a target
\* on which both resolvers return nothing, come back with the text unchanged
CallbackPassthrough ==
    (op = "callback" /\ ~ret.panic) =>
        /\ ret.val # << arg_target, arg_text >> =>
            /\ ~Contains(arg_target, s_scheme_mark)
            /\ \/ IsSome(try_resolve_intra(db, arg_text, arg_target).val)
               \/ IsSome(try_resolve_path(db, arg_target))
        /\ Contains(arg_target, s_scheme_mark) => ret.val = << arg_target, arg_text >>
        /\ ( /\ try_resolve_intra(db, arg_text, arg_target) = Return(None)
             /\ try_resolve_path(db, arg_target) = None )
            => ret.val = << arg_target, arg_text >>

\* the callback was given a relative target that no resolver resolves, with a text
\* that carries a prefix, and returned both unchanged
CallbackPassthroughWitness ==
    /\ op = "callback"
    /\ arg_target = n_S /\ arg_text = t_struct_S
    /\ ~Contains(arg_target, s_scheme_mark)
    /\ try_resolve_intra(db, arg_text, arg_target) = Return(None)
    /\ try_resolve_path(db, arg_target) = None
    /\ ret = Return(<< n_S, t_struct_S >>)

u_https_x_k == s_https_x \o << "/" >> \o n_k \o << "/" >>
f_struct_S == s_struct \o << ".", "S" >> \o s_dot_html

\* try_resolve_intra resolved the target "struct S" to the struct S of unit k, whose
\* doc root is https://x/
ResolvedStructS ==
    /\ op = "try_resolve_intra"
    /\ arg_target = t_struct_S
    /\ db.types = Some(DefStructS)
    /\ db.krate_name = Some(n_k)
    /\ IsSome(FirstRootUrl(db.doc_attrs, 1))
    /\ ~ret.panic /\ IsSome(ret.val)

\* C4 as stated: with the import path [a, b] the URL is https://x/k/a/b/struct.S.html
IntraUrlKeepsEveryPathSegment ==
    (ResolvedStructS /\ db.import_path = Some(<< n_a, n_b >>)) =>
        Unwrap(ret.val)[1] = u_https_x_k \o << "a", "/", "b", "/" >> \o f_struct_S

\* C4 as amended: the symbol filename replaces the last segment of the import path, so
\* that [a, b] gives https://x/k/a/struct.S.html and [a, b, S] gives
\* https://x/k/a/b/struct.S.html
IntraUrlReplacesLastPathSegment ==
    ResolvedStructS =>
        Unwrap(ret.val)[1] =
            u_https_x_k \o Join(DropLast(Unwrap(db.import_path), 1), s_slash)
                \o s_slash \o f_struct_S

IntraUrlReplacesLastPathSegmentWitness ==
    /\ ResolvedStructS
    /\ db.import_path = Some(<< n_a, n_b >>)
    /\ Unwrap(ret.val)[1] = u_https_x_k \o << "a", "/" >> \o f_struct_S

\* C5: the target fn@foo is classified as Values, and with a candidate in both
\* namespaces the URL is the one of the Values candidate
FnDisambiguatorSelectsValues ==
    ( /\ op = "try_resolve_intra"
      /\ arg_target = t_fn_at_foo
      /\ IsSome(db.types) /\ IsSome(db.values)
      /\ ~ret.panic /\ IsSome(ret.val) )
    => /\ from_intra_spec(arg_target) = Some("Values")
       /\ Some(Unwrap(ret.val)[1]) = IntraUrl(db, Unwrap(db.values))

\* a link target that carries a macro disambiguator
HasMacroDisambiguator(s) ==
    \/ StartsWith(s, s_macro \o s_at)
    \/ StartsWith(s, s_macro \o << " " >>)
    \/ EndsWith(s, s_bang)

\* C6: try_resolve_intra returns None for every target with a macro disambiguator
MacroLinksNeverResolve ==
    (op = "try_resolve_intra" /\ HasMacroDisambiguator(arg_target) /\ ~ret.panic)
        => ret.val = None

\* C8: with a root module and a unit name, get_doc_url returns the docs.rs URL whenever
\* no literal follows an html_root_url identifier in a doc annotation
DocUrlFallsBackToDocsRs ==
    ( /\ op = "get_doc_url"
      /\ db.root_module /\ IsSome(db.krate_name)
      /\ FirstRootUrl(db.doc_attrs, 1) = None )
    => ret = UrlParse(s_docs_rs \o Unwrap(db.krate_name) \o << "/", "*", "/" >>)

\* C9: no call of try_resolve_intra panics, and after its None the callback returns
\* what try_resolve_path decides
IntraFailuresAreNone ==
    /\ op = "try_resolve_intra" => ~ret.panic
    /\ (op = "callback" /\ ~Contains(arg_target, s_scheme_mark)) =>
        /\ ~ret.panic
        /\ try_resolve_intra(db, arg_text, arg_target) = Return(None) =>
            ret = PathOrUnchanged(arg_target, arg_text, try_resolve_path(db, arg_target))

----------------------------------------------------------------------------
(* Properties of the namespace disambiguator *)

\* C7: strip_prefixes_suffixes applied to its own result returns that result
StripIsIdempotent ==
    op = "strip_prefixes_suffixes" => strip_prefixes_suffixes(ret) = ret

====
